---- MODULE Spec2Model ----
(***************************************************************************)
(* A model of the netdox plugin access layer: the argument encoder of      *)
(* model.rs, the writer of put.rs and the reader of get.rs, over a store   *)
(* that answers one request at a time.                                     *)
(*                                                                         *)
(* Every argument of a request is a string, as on the wire: integers are   *)
(* written in decimal (ToString), booleans as "1"/"0".                     *)
(***************************************************************************)
EXTENDS Integers, Sequences, FiniteSets, TLC

(***************************************************************************)
(* model.rs: the shapes of the data.                                       *)
(***************************************************************************)
\* struct Node
Nodes ==
    [name : STRING, link_id : STRING, alt_names : SUBSET STRING,
     dns_names : SUBSET STRING, raw_ids : SUBSET STRING, plugins : SUBSET STRING]

\* enum StringContentType
ContentTypes == {"HTML", "Markdown", "Plain"}

\* enum PluginData: the fields of the four variants; items is a map (Hash) or a
\* sequence of triples (List), rows a sequence of sequences
PluginDataFields == [variant : {"Hash", "List", "String", "Table"}, title : STRING,
                     content_type : ContentTypes, content : STRING, num_columns : Nat]

VARIABLES
    store,      \* the key-value store: [strs, sets, hashes], each a map from key to value
    pc,         \* position of the client: "idle", a label inside an operation, or "done"
    call,       \* the operation being run and its arguments
    loc,        \* the locals of the operation being run
    sent,       \* the requests the operation has sent so far, in order
    applied,    \* the procedure calls the store has executed for this operation
    ret,        \* the operation's result, once pc = "done"
    failedAt,   \* history: index in sent of the request that failed, 0 if none
    dirty,      \* history: another client's procedure ran after this operation's first read
    snaps,      \* history: the contents the store has had since the operation began
    writes,     \* number of procedure calls of other clients executed so far
    pd,         \* encoder check: the plugin data value
    args,       \* encoder check: the encoded argument list
    decoded,    \* encoder check: what the reference decoder read back
    stage       \* encoder check: "new", "encoded" or "decoded"

vars == <<store, pc, call, loc, sent, applied, ret, failedAt, dirty, snaps, writes,
          pd, args, decoded, stage>>

clientVars == <<pc, call, loc, sent, applied, ret, failedAt, dirty, snaps>>
encVars == <<pd, args, decoded, stage>>

(***************************************************************************)
(* Bounds of the model.                                                    *)
(***************************************************************************)
MaxNames == 2
MaxItems == 2
MaxCols == 2
MaxRows == 2
MaxReply == 2
MaxWrites == 1
MaxRaw == 2

(***************************************************************************)
(* Names of the server-side procedures and of the key namespaces.          *)
(***************************************************************************)
CREATE_DNS_FN == "netdox_create_dns"
CREATE_NODE_FN == "netdox_create_node"
CREATE_REPORT_FN == "netdox_create_report"
CREATE_DNS_PDATA_FN == "netdox_create_dns_plugin_data"
CREATE_NODE_PDATA_FN == "netdox_create_node_plugin_data"
CREATE_PROC_NODE_PDATA_FN == "netdox_create_proc_node_plugin_data"
CREATE_REPORT_DATA_FN == "netdox_create_report_data"
CREATE_DNS_METADATA_FN == "netdox_create_dns_metadata"
CREATE_NODE_METADATA_FN == "netdox_create_node_metadata"
CREATE_PROC_NODE_METADATA_FN == "netdox_create_proc_node_metadata"
QUALIFY_DNS_NAME_FN == "netdox_qualify_dns_names"

META_KEY == "meta"
DNS_KEY == "dns"
NODES_KEY == "nodes"
PROC_NODES_KEY == "proc_nodes"
DEFAULT_NETWORK_KEY == "default_network"

None == "<none>"

(***************************************************************************)
(* Generic helpers.                                                        *)
(***************************************************************************)
RECURSIVE Flatten(_)
Flatten(ss) == IF ss = <<>> THEN <<>> ELSE Head(ss) \o Flatten(Tail(ss))

SeqsUpTo(S, n) == UNION {[1..k -> S] : k \in 0..n}

Orders(S) == {o \in [1..Cardinality(S) -> S] : \A i, j \in DOMAIN o : i # j => o[i] # o[j]}

Range(f) == {f[x] : x \in DOMAIN f}

ExtendKeepOld(m1, m2) ==
    [k \in DOMAIN m1 \cup DOMAIN m2 |-> IF k \in DOMAIN m1 THEN m1[k] ELSE m2[k]]

\* HashMap::extend: every entry of m2 is inserted into m1, replacing an equal key.
Extend(m1, m2) ==
    [k \in DOMAIN m1 \cup DOMAIN m2 |-> IF k \in DOMAIN m2 THEN m2[k] ELSE m1[k]]

EmptyMap == [k \in {} |-> None]

(***************************************************************************)
(* model.rs: the argument encoder.                                         *)
(***************************************************************************)
\* StringContentType::write_redis_args
ContentTypeArg(ct) ==
    CASE ct = "HTML" -> "html"
      [] ct = "Markdown" -> "markdown"
      [] ct = "Plain" -> "plain"

\* (key, value) pairs of a map, flattened in the iteration order `order`.
FlattenPairs(m, order) == Flatten([i \in DOMAIN order |-> <<order[i], m[order[i]]>>])

AddAsArgsNoCount(data, order) ==
    CASE data.variant = "Hash" ->
            <<"hash", data.title>> \o FlattenPairs(data.items, order)
      [] data.variant = "List" ->
            <<"list", data.title>> \o Flatten(data.items)
      [] data.variant = "String" ->
            <<"string", data.title, ContentTypeArg(data.content_type), data.content>>
      [] data.variant = "Table" ->
            <<"table", data.title>> \o Flatten(data.rows)

\* PluginData::add_as_args: the arguments appended for `data`; `order` is the
\* iteration order of a Hash's items (unused by the other variants).
AddAsArgs(data, order) ==
    CASE data.variant = "Hash" ->
            <<"hash", data.title>> \o FlattenPairs(data.items, order)
      [] data.variant = "List" ->
            <<"list", data.title>> \o Flatten(data.items)
      [] data.variant = "String" ->
            <<"string", data.title, ContentTypeArg(data.content_type), data.content>>
      [] data.variant = "Table" ->
            <<"table", data.title, ToString(data.num_columns)>> \o Flatten(data.rows)

\* The iteration orders a HashMap of `data` can have.
ItemOrders(data) == IF data.variant = "Hash" THEN Orders(DOMAIN data.items) ELSE {<<>>}

(***************************************************************************)
(* The plugin data values the encoder is checked on.                       *)
(***************************************************************************)
Titles == {"t1", "t2"}
Cells == {"a", "b"}
HashKeys == {"k1", "k2"}
Triples == {<<"a", "b", "c">>, <<"c", "a", "b">>, <<"a", "a", "a">>}
Maps(K, V) == UNION {[S -> V] : S \in SUBSET K}

HashDatas == {[variant |-> "Hash", title |-> t, items |-> m] : t \in Titles, m \in Maps(HashKeys, Cells)}
ListDatas == {[variant |-> "List", title |-> t, items |-> l] : t \in Titles, l \in SeqsUpTo(Triples, MaxItems)}
StringDatas ==
    {[variant |-> "String", title |-> t, content_type |-> ct, content |-> c] :
        t \in Titles, ct \in ContentTypes, c \in Cells}
TableDatas ==
    {[variant |-> "Table", title |-> t, num_columns |-> n, rows |-> r] :
        t \in Titles, n \in 0..MaxCols, r \in SeqsUpTo(SeqsUpTo(Cells, MaxCols), MaxRows)}
PluginDatas == HashDatas \cup ListDatas \cup StringDatas \cup TableDatas

\* A table as the data model expects it: every row has num_columns cells.
WellFormed(data) ==
    data.variant = "Table" =>
        \A i \in DOMAIN data.rows : Len(data.rows[i]) = data.num_columns /\ data.num_columns >= 1

(***************************************************************************)
(* The reference decoder of the encoded argument list.                     *)
(***************************************************************************)
Malformed == [variant |-> "Malformed"]

ParseDec(s) ==
    IF \E n \in 0..(MaxCols + 2) : ToString(n) = s
    THEN CHOOSE n \in 0..(MaxCols + 2) : ToString(n) = s
    ELSE -1

Chunks(s, n) == [i \in 1..(Len(s) \div n) |-> SubSeq(s, (i - 1) * n + 1, i * n)]

ParseContentType(s) ==
    CASE s = "html" -> "HTML"
      [] s = "markdown" -> "Markdown"
      [] s = "plain" -> "Plain"
      [] OTHER -> "Unknown"

Decode(a) ==
    IF Len(a) < 2 THEN Malformed
    ELSE LET tag == a[1]
             title == a[2]
             rest == SubSeq(a, 3, Len(a))
         IN CASE tag = "hash" ->
                    IF Len(rest) % 2 # 0 THEN Malformed
                    ELSE [variant |-> "Hash", title |-> title,
                          pairs |-> Range(Chunks(rest, 2))]
              [] tag = "list" ->
                    IF Len(rest) % 3 # 0 THEN Malformed
                    ELSE [variant |-> "List", title |-> title, items |-> Chunks(rest, 3)]
              [] tag = "string" ->
                    IF Len(rest) # 2 THEN Malformed
                    ELSE [variant |-> "String", title |-> title,
                          content_type |-> ParseContentType(rest[1]), content |-> rest[2]]
              [] tag = "table" ->
                    IF Len(rest) < 1 THEN Malformed
                    ELSE LET n == ParseDec(rest[1])
                             cells == Tail(rest)
                         IN IF n < 0 THEN Malformed
                            ELSE IF n = 0
                            THEN IF cells = <<>>
                                 THEN [variant |-> "Table", title |-> title,
                                       num_columns |-> 0, rows |-> <<>>]
                                 ELSE Malformed
                            ELSE IF Len(cells) % n # 0 THEN Malformed
                            ELSE [variant |-> "Table", title |-> title,
                                  num_columns |-> n, rows |-> Chunks(cells, n)]
              [] OTHER -> Malformed

\* The decoded value reproduces `data`: exactly, or for a Hash as a set of pairs.
Reproduces(dec, data) ==
    IF data.variant = "Hash"
    THEN /\ dec.variant = "Hash"
         /\ dec.title = data.title
         /\ dec.pairs = {<<k, data.items[k]>> : k \in DOMAIN data.items}
    ELSE dec = data

(***************************************************************************)
(* Encoder check: draw a value, encode it, decode it.                      *)
(***************************************************************************)
EncodeStep ==
    /\ stage = "new"
    /\ \E order \in ItemOrders(pd) : args' = AddAsArgs(pd, order)
    /\ stage' = "encoded"
    /\ UNCHANGED <<pd, decoded, store, writes, clientVars>>

DecodeStep ==
    /\ stage = "encoded"
    /\ decoded' = Decode(args)
    /\ stage' = "decoded"
    /\ UNCHANGED <<pd, args, store, writes, clientVars>>

(***************************************************************************)
(* The store: keys, contents and the answers to the three read commands.   *)
(***************************************************************************)
LinkIds == {"l1", "l2"}
RawIds == {"r" \o ToString(i) : i \in 1..MaxRaw}

\* format!("{PROC_NODES_KEY};{link_id}")
NodeKey(link_id) == PROC_NODES_KEY \o ";" \o link_id

NodeFieldKeySwapped(link_id, field) ==
    PROC_NODES_KEY \o ";" \o link_id \o ";"
        \o (CASE field = "raw_ids" -> "dns_names"
              [] field = "dns_names" -> "raw_ids"
              [] OTHER -> field)

\* format!("{PROC_NODES_KEY};{link_id};alt_names") and its three siblings
NodeFieldKey(link_id, field) == PROC_NODES_KEY \o ";" \o link_id \o ";" \o field

\* format!("{META_KEY};{NODES_KEY};{raw_id}")
RawMetaKey(raw_id) == META_KEY \o ";" \o NODES_KEY \o ";" \o raw_id

\* format!("{META_KEY};{PROC_NODES_KEY};{}", node.link_id)
ProcMetaKey(link_id) == META_KEY \o ";" \o PROC_NODES_KEY \o ";" \o link_id

\* format!("{META_KEY};{DNS_KEY};{qualified_name}")
DnsMetaKey(qualified_name) == META_KEY \o ";" \o DNS_KEY \o ";" \o qualified_name

Nil == "<nil>"

\* GET: the string at key, or nil
StrGet(st, key) == IF key \in DOMAIN st.strs THEN st.strs[key] ELSE Nil

\* SMEMBERS: the set at key; a missing key is the empty set
Smembers(st, key) == IF key \in DOMAIN st.sets THEN st.sets[key] ELSE {}

\* HGETALL: the hash at key; a missing key is the empty hash
Hgetall(st, key) == IF key \in DOMAIN st.hashes THEN st.hashes[key] ELSE EmptyMap

(***************************************************************************)
(* Results and the per-operation bookkeeping.                              *)
(***************************************************************************)
NoRet == [kind |-> "None"]
Ok(v) == [kind |-> "Ok", val |-> v]
Unit == "()"
\* FCallError::Redis, from a failed request
RedisErr == [kind |-> "Redis"]
\* FCallError::WrongArgs
WrongArgs(function, problem) == [kind |-> "WrongArgs", function |-> function, problem |-> problem]
\* FCallError::Logic
Logic(msg) == [kind |-> "Logic", msg |-> msg]

NoLoc ==
    [name |-> None, link_id |-> None, order |-> <<>>, link_ids |-> <<>>, nodes |-> <<>>, fields |-> EmptyMap, todo |-> <<>>, meta |-> EmptyMap, reply |-> <<>>, qualified |-> None]

Ready == pc = "idle"

\* An operation of a single request.
OneShot(op, a, cmd, fail, v, isProc) ==
    /\ Ready
    /\ call' = [a |-> a, op |-> op]
    /\ dirty' = FALSE
    /\ snaps' = {store}
    /\ loc' = NoLoc
    /\ sent' = <<cmd>>
    /\ applied' = IF fail \/ ~isProc THEN <<>> ELSE <<cmd>>
    /\ failedAt' = IF fail THEN 1 ELSE 0
    /\ ret' = IF fail THEN RedisErr ELSE Ok(v)
    /\ pc' = "done"
    /\ UNCHANGED <<store, writes, encVars>>

\* An operation that returns an error before any request.
Reject(op, a, err) ==
    /\ Ready
    /\ call' = [a |-> a, op |-> op]
    /\ dirty' = FALSE
    /\ snaps' = {store}
    /\ loc' = NoLoc
    /\ sent' = <<>>
    /\ applied' = <<>>
    /\ failedAt' = 0
    /\ ret' = err
    /\ pc' = "done"
    /\ UNCHANGED <<store, writes, encVars>>

(***************************************************************************)
(* put.rs: the writer.  Each operation builds one FCALL request.           *)
(***************************************************************************)
Plugins == {"p1"}
DnsNames == {"a.example", "b.example"}
NodeNames == {"node1"}
RTypes == {"A"}
RValues == {"1.2.3.4"}
PDataIds == {"pd1"}
ReportIds == {"rep1"}
MetaKeys == {"owner", "env"}
MetaVals == {"team-a", "prod"}

\* bool as a request argument
BoolArg(b) == IF b THEN "1" ELSE "0"

OptArg(o) == IF o = None THEN <<>> ELSE <<o>>

\* put_dns: the request, for a valid combination of rtype and value
PutDnsCmd(plugin, name, rtype, value) ==
    <<"FCALL", CREATE_DNS_FN, "1", name, plugin>> \o OptArg(rtype) \o OptArg(value)

\* put_dns: the match on (rtype, value)
PutDnsValid(rtype, value) == (rtype = None) <=> (value = None)

PutDnsSendsAlways(plugin, name, rtype, value, fail) ==
    OneShot("put_dns", [name |-> name, plugin |-> plugin, rtype |-> rtype, value |-> value],
            PutDnsCmd(plugin, name, rtype, value), fail, Unit, TRUE)

PutDns(plugin, name, rtype, value, fail) ==
    LET a == [name |-> name, plugin |-> plugin, rtype |-> rtype, value |-> value]
    IN IF PutDnsValid(rtype, value)
       THEN OneShot("put_dns", a, PutDnsCmd(plugin, name, rtype, value), fail, Unit, TRUE)
       ELSE /\ ~fail
            /\ Reject("put_dns", a,
                      WrongArgs(CREATE_DNS_FN,
                                "record type and value must both be provided or neiher provided."))

PutDnsPluginDataCmd(plugin, name, pdata_id, data, order) ==
    <<"FCALL", CREATE_DNS_PDATA_FN, "1", name, plugin, pdata_id>> \o AddAsArgs(data, order)

PutDnsPluginData(plugin, name, pdata_id, data, order, fail) ==
    OneShot("put_dns_plugin_data",
            [name |-> name, order |-> order, data |-> data, plugin |-> plugin, pdata_id |-> pdata_id],
            PutDnsPluginDataCmd(plugin, name, pdata_id, data, order), fail, Unit, TRUE)

PutDnsMetadataCmd(plugin, name, metadata, order) ==
    <<"FCALL", CREATE_DNS_METADATA_FN, "1", name, plugin>> \o FlattenPairs(metadata, order)

PutDnsMetadata(plugin, name, metadata, order, fail) ==
    OneShot("put_dns_metadata",
            [name |-> name, order |-> order, plugin |-> plugin, metadata |-> metadata],
            PutDnsMetadataCmd(plugin, name, metadata, order), fail, Unit, TRUE)

PutNodeCmdCountAfterKeys(plugin, name, dns_names, exclusive, link_id) ==
    <<"FCALL", CREATE_NODE_FN>> \o dns_names \o <<ToString(Len(dns_names))>>
        \o <<plugin, name, BoolArg(exclusive)>> \o OptArg(link_id)

PutNodeCmd(plugin, name, dns_names, exclusive, link_id) ==
    <<"FCALL", CREATE_NODE_FN, ToString(Len(dns_names))>> \o dns_names
        \o <<plugin, name, BoolArg(exclusive)>> \o OptArg(link_id)

PutNode(plugin, name, dns_names, exclusive, link_id, fail) ==
    OneShot("put_node",
            [name |-> name, link_id |-> link_id, dns_names |-> dns_names, plugin |-> plugin, exclusive |-> exclusive],
            PutNodeCmd(plugin, name, dns_names, exclusive, link_id), fail, Unit, TRUE)

PutNodePluginDataCmd(plugin, dns_names, pdata_id, data, order) ==
    <<"FCALL", CREATE_NODE_PDATA_FN, ToString(Len(dns_names))>> \o dns_names
        \o <<plugin, pdata_id>> \o AddAsArgs(data, order)

PutNodePluginData(plugin, dns_names, pdata_id, data, order, fail) ==
    OneShot("put_node_plugin_data",
            [dns_names |-> dns_names, order |-> order, data |-> data, plugin |-> plugin, pdata_id |-> pdata_id],
            PutNodePluginDataCmd(plugin, dns_names, pdata_id, data, order), fail, Unit, TRUE)

PutProcNodePluginDataCmd(plugin, link_id, pdata_id, data, order) ==
    <<"FCALL", CREATE_PROC_NODE_PDATA_FN, "1", link_id, plugin, pdata_id>>
        \o AddAsArgs(data, order)

PutProcNodePluginData(plugin, link_id, pdata_id, data, order, fail) ==
    OneShot("put_proc_node_plugin_data",
            [link_id |-> link_id, order |-> order, data |-> data, plugin |-> plugin, pdata_id |-> pdata_id],
            PutProcNodePluginDataCmd(plugin, link_id, pdata_id, data, order), fail, Unit, TRUE)

PutNodeMetadataCmd(plugin, dns_names, metadata, order) ==
    <<"FCALL", CREATE_NODE_METADATA_FN, ToString(Len(dns_names))>> \o dns_names
        \o <<plugin>> \o FlattenPairs(metadata, order)

PutNodeMetadata(plugin, dns_names, metadata, order, fail) ==
    OneShot("put_node_metadata",
            [dns_names |-> dns_names, order |-> order, plugin |-> plugin, metadata |-> metadata],
            PutNodeMetadataCmd(plugin, dns_names, metadata, order), fail, Unit, TRUE)

PutProcNodeMetadataCmd(plugin, link_id, metadata, order) ==
    <<"FCALL", CREATE_PROC_NODE_METADATA_FN, "1", link_id, plugin>>
        \o FlattenPairs(metadata, order)

PutProcNodeMetadata(plugin, link_id, metadata, order, fail) ==
    OneShot("put_proc_node_metadata",
            [link_id |-> link_id, order |-> order, plugin |-> plugin, metadata |-> metadata],
            PutProcNodeMetadataCmd(plugin, link_id, metadata, order), fail, Unit, TRUE)

PutReportCmd(plugin, report_id, title, length) ==
    <<"FCALL", CREATE_REPORT_FN, "1", report_id, plugin, title, ToString(length)>>

PutReport(plugin, report_id, title, length, fail) ==
    OneShot("put_report",
            [title |-> title, plugin |-> plugin, report_id |-> report_id, length |-> length],
            PutReportCmd(plugin, report_id, title, length), fail, Unit, TRUE)

PutReportDataCmd(plugin, report_id, index, data, order) ==
    <<"FCALL", CREATE_REPORT_DATA_FN, "1", report_id, plugin, ToString(index)>>
        \o AddAsArgs(data, order)

PutReportData(plugin, report_id, index, data, order, fail) ==
    OneShot("put_report_data",
            [order |-> order, data |-> data, plugin |-> plugin, report_id |-> report_id, index |-> index],
            PutReportDataCmd(plugin, report_id, index, data, order), fail, Unit, TRUE)

\* The values the writer operations are called with.
DnsNameLists == SeqsUpTo(DnsNames, MaxNames)
Metadatas == Maps(MetaKeys, MetaVals)
PDataSamples ==
    {[variant |-> "Hash", title |-> "t1", items |-> ("k1" :> "a") @@ ("k2" :> "b")],
     [variant |-> "List", title |-> "t1", items |-> <<<<"a", "b", "c">>>>],
     [variant |-> "String", title |-> "t1", content_type |-> "Markdown", content |-> "a"],
     [variant |-> "Table", title |-> "t1", num_columns |-> 2, rows |-> <<<<"a", "b">>>>]}

(***************************************************************************)
(* get.rs: the reader.  An operation of several requests is one action per *)
(* request; the store may execute other clients' procedures in between.    *)
(***************************************************************************)
QualifiedNames == {"[net]a.example", "[net]b.example"}
Replies == SeqsUpTo(QualifiedNames, MaxReply)

GetCmd(key) == <<"GET", key>>
SmembersCmd(key) == <<"SMEMBERS", key>>
HgetallCmd(key) == <<"HGETALL", key>>

\* qualify_dns_names: the request built by cmd(QUALIFY_DNS_NAME_FN).arg(len).arg(&names)
QualifyCmd(names) == <<QUALIFY_DNS_NAME_FN, ToString(Len(names))>> \o names

\* The operation `op` begins at `label` with locals `l`.
Begin(op, a, l, label) ==
    /\ Ready
    /\ call' = [a |-> a, op |-> op]
    /\ loc' = l
    /\ pc' = label
    /\ sent' = <<>>
    /\ applied' = <<>>
    /\ ret' = NoRet
    /\ failedAt' = 0
    /\ dirty' = FALSE
    /\ snaps' = {store}
    /\ UNCHANGED <<store, writes, encVars>>

\* One request of a running operation is sent and answered, or fails.
Request(cmd, fail) ==
    /\ sent' = Append(sent, cmd)
    /\ failedAt' = IF fail THEN Len(sent) + 1 ELSE 0
    /\ UNCHANGED <<store, writes, encVars, call, dirty, snaps>>

PropagateRetry ==
    /\ ret' = NoRet
    /\ pc' = pc
    /\ UNCHANGED loc

\* The `?` after a request: its error is the operation's result.
Propagate ==
    /\ ret' = RedisErr
    /\ pc' = "done"
    /\ UNCHANGED loc

\* The operation returns r.
Return(r) ==
    /\ ret' = r
    /\ pc' = "done"

GetDefaultNetwork(fail) ==
    LET v == StrGet(store, DEFAULT_NETWORK_KEY)
    IN OneShot("get_default_network", <<>>, GetCmd(DEFAULT_NETWORK_KEY), fail \/ v = Nil, v, FALSE)

QualifyDnsNames(names, reply, fail) ==
    OneShot("qualify_dns_names", [names |-> names], QualifyCmd(names), fail, reply, TRUE)

GetDnsNames(fail) ==
    OneShot("get_dns_names", <<>>, SmembersCmd(DNS_KEY), fail, Smembers(store, DNS_KEY), FALSE)

\* get_nodes, up to its first request
CallGetNodes == Begin("get_nodes", <<>>, NoLoc, "get_nodes")

\* get_nodes: smembers(PROC_NODES_KEY) into a Vec, in the order the store answers
GetNodesSmembers(order, fail) ==
    /\ pc = "get_nodes"
    /\ Request(SmembersCmd(PROC_NODES_KEY), fail)
    /\ UNCHANGED applied
    /\ IF fail THEN Propagate
       ELSE IF order = <<>> THEN Return(Ok(<<>>)) /\ UNCHANGED loc
       ELSE /\ loc' = [loc EXCEPT !.link_ids = Tail(order), !.link_id = Head(order)]
            /\ pc' = "get_node_name"
            /\ UNCHANGED ret

\* get_node, up to its first request
CallGetNode(link_id) ==
    Begin("get_node", [link_id |-> link_id], [NoLoc EXCEPT !.link_id = link_id], "get_node_name")

\* get_node: the display name
GetNodeName(fail) ==
    /\ pc = "get_node_name"
    /\ LET v == StrGet(store, NodeKey(loc.link_id))
       IN /\ Request(GetCmd(NodeKey(loc.link_id)), fail \/ v = Nil)
          /\ UNCHANGED applied
          /\ IF fail \/ v = Nil THEN Propagate
             ELSE /\ loc' = [loc EXCEPT !.name = v, !.fields = EmptyMap,
                                        !.todo = <<"alt_names", "dns_names", "raw_ids", "plugins">>]
                  /\ pc' = "get_node_sets"
                  /\ UNCHANGED ret

MkNodeAltFromDns(name, link_id, fields) ==
    [name |-> name, link_id |-> link_id, alt_names |-> fields["dns_names"],
     dns_names |-> fields["dns_names"], raw_ids |-> fields["raw_ids"],
     plugins |-> fields["plugins"]]

\* Node { name, link_id, alt_names, dns_names, raw_ids, plugins }
MkNode(name, link_id, fields) ==
    [name |-> name, link_id |-> link_id, alt_names |-> fields["alt_names"],
     dns_names |-> fields["dns_names"], raw_ids |-> fields["raw_ids"],
     plugins |-> fields["plugins"]]

\* get_node: the next of the four sets; after the last, the Node goes to the caller
GetNodeSet(fail) ==
    /\ pc = "get_node_sets"
    /\ LET f == Head(loc.todo)
           fields == (f :> Smembers(store, NodeFieldKey(loc.link_id, f))) @@ loc.fields
           node == MkNode(loc.name, loc.link_id, fields)
           nodes == Append(loc.nodes, node)
       IN /\ Request(SmembersCmd(NodeFieldKey(loc.link_id, f)), fail)
          /\ UNCHANGED applied
          /\ IF fail THEN Propagate
             ELSE IF Tail(loc.todo) # <<>>
             THEN /\ loc' = [loc EXCEPT !.fields = fields, !.todo = Tail(loc.todo)]
                  /\ UNCHANGED <<pc, ret>>
             ELSE IF call.op = "get_node"
             THEN /\ Return(Ok(node))
                  /\ loc' = [loc EXCEPT !.fields = fields, !.todo = <<>>]
             ELSE IF loc.link_ids = <<>>
             THEN /\ Return(Ok(nodes))
                  /\ loc' = [loc EXCEPT !.fields = fields, !.todo = <<>>, !.nodes = nodes]
             ELSE /\ loc' = [loc EXCEPT !.fields = fields, !.todo = <<>>, !.nodes = nodes,
                                        !.link_id = Head(loc.link_ids),
                                        !.link_ids = Tail(loc.link_ids)]
                  /\ pc' = "get_node_name"
                  /\ UNCHANGED ret

\* get_dns_metadata, up to its first request
CallGetDnsMetadata(name) ==
    Begin("get_dns_metadata", [name |-> name], NoLoc, "dns_qualify")

\* get_dns_metadata: qualify_dns_names(vec![name]) and the first name of the answer
GetDnsMetadataQualify(reply, fail) ==
    /\ pc = "dns_qualify"
    /\ Request(QualifyCmd(<<call.a.name>>), fail)
    /\ applied' = IF fail THEN applied ELSE Append(applied, QualifyCmd(<<call.a.name>>))
    /\ IF fail THEN Propagate
       ELSE IF reply = <<>>
       THEN /\ Return(Logic("Tried to qualify one DNS name but got zero back."))
            /\ loc' = [loc EXCEPT !.reply = reply]
       ELSE /\ loc' = [loc EXCEPT !.reply = reply, !.qualified = Head(reply)]
            /\ pc' = "dns_hgetall"
            /\ UNCHANGED ret

\* get_dns_metadata: the metadata hash of the qualified name
GetDnsMetadataHgetall(fail) ==
    /\ pc = "dns_hgetall"
    /\ Request(HgetallCmd(DnsMetaKey(loc.qualified)), fail)
    /\ UNCHANGED applied
    /\ IF fail THEN Propagate
       ELSE Return(Ok(Hgetall(store, DnsMetaKey(loc.qualified)))) /\ UNCHANGED loc

\* get_node_metadata, up to its first request; `order` is the iteration order
\* of the HashSet node.raw_ids
CallGetNodeMetadata(node, order) ==
    Begin("get_node_metadata", [order |-> order, node |-> node],
          [NoLoc EXCEPT !.order = order],
          IF order = <<>> THEN "meta_proc" ELSE "meta_raw")

\* get_node_metadata: the loop body, for the next raw id
GetNodeMetadataRaw(fail) ==
    /\ pc = "meta_raw"
    /\ LET raw_id == Head(loc.order)
           raw_meta == Hgetall(store, RawMetaKey(raw_id))
       IN /\ Request(HgetallCmd(RawMetaKey(raw_id)), fail)
          /\ UNCHANGED applied
          /\ IF fail THEN Propagate
             ELSE /\ loc' = [loc EXCEPT !.meta = Extend(loc.meta, raw_meta),
                                        !.order = Tail(loc.order)]
                  /\ pc' = IF Tail(loc.order) = <<>> THEN "meta_proc" ELSE "meta_raw"
                  /\ UNCHANGED ret

OverlayUnder(meta, proc_meta) == Extend(proc_meta, meta)

\* get_node_metadata: meta.extend(proc_meta)
Overlay(meta, proc_meta) == Extend(meta, proc_meta)

\* get_node_metadata: the processed node's own hash, laid over the merged raw hashes
GetNodeMetadataProc(fail) ==
    /\ pc = "meta_proc"
    /\ LET proc_meta == Hgetall(store, ProcMetaKey(call.a.node.link_id))
       IN /\ Request(HgetallCmd(ProcMetaKey(call.a.node.link_id)), fail)
          /\ UNCHANGED applied
          /\ IF fail THEN Propagate
             ELSE /\ Return(Ok(Overlay(loc.meta, proc_meta)))
                  /\ loc' = [loc EXCEPT !.meta = Overlay(loc.meta, proc_meta)]

(***************************************************************************)
(* The key layout of the store, as the procedures that fill it write it.   *)
(***************************************************************************)
KProcNodes == "proc_nodes"
KDns == "dns"
KDefaultNetwork == "default_network"
KNode(l) == "proc_nodes;" \o l
KField(l, f) == "proc_nodes;" \o l \o ";" \o f
KRawMeta(r) == "meta;nodes;" \o r
KProcMeta(l) == "meta;proc_nodes;" \o l
KDnsMeta(q) == "meta;dns;" \o q

(***************************************************************************)
(* Other clients: the store executes one of their procedures atomically.   *)
(***************************************************************************)
Put(key, val, m) == (key :> val) @@ m

\* What one procedure call of another client does: it rewrites some keys together.
WriteEffects ==
    {<<[key |-> KNode("l1"), kind |-> "strs", val |-> "renamed-l1"],
       [key |-> KField("l1", "alt_names"), kind |-> "sets", val |-> {"alt2-l1"}],
       [key |-> KField("l1", "raw_ids"), kind |-> "sets", val |-> {"r2"}]>>,
     <<[key |-> KProcNodes, kind |-> "sets", val |-> {"l1", "l2"}],
       [key |-> KField("l2", "plugins"), kind |-> "sets", val |-> {"p1", "p2"}]>>,
     <<[key |-> KProcNodes, kind |-> "sets", val |-> {"l1"}]>>,
     <<[key |-> KField("l2", "dns_names"), kind |-> "sets", val |-> {"[net]b.example"}]>>,
     <<[key |-> KRawMeta("r1"), kind |-> "hashes", val |-> ("owner" :> "team-c")],
       [key |-> KRawMeta("r2"), kind |-> "hashes", val |-> ("region" :> "us")]>>,
     <<[key |-> KRawMeta("r2"), kind |-> "hashes", val |-> ("env" :> "dev")],
       [key |-> KProcMeta("l1"), kind |-> "hashes", val |-> ("env" :> "dev")]>>}

RECURSIVE ApplyWrite(_, _)
ApplyWrite(st, w) ==
    IF w = <<>> THEN st
    ELSE ApplyWrite([st EXCEPT ![Head(w).kind] = Put(Head(w).key, Head(w).val, @)], Tail(w))

Running == pc \notin {"idle", "done"}

StoreWrite(w) ==
    /\ writes < MaxWrites
    /\ ApplyWrite(store, w) # store
    /\ store' = ApplyWrite(store, w)
    /\ writes' = writes + 1
    /\ dirty' = (dirty \/ (Running /\ sent # <<>>))
    /\ snaps' = IF Running THEN snaps \cup {ApplyWrite(store, w)} ELSE snaps
    /\ UNCHANGED <<pc, call, loc, sent, applied, ret, failedAt, encVars>>

(***************************************************************************)
(* Initial contents of the store.                                          *)
(***************************************************************************)
NodeSets(l, raw_ids) ==
    (KField(l, "alt_names") :> {"alt-" \o l})
        @@ (KField(l, "dns_names") :> {"[net]" \o l \o ".example"})
        @@ (KField(l, "raw_ids") :> raw_ids)
        @@ (KField(l, "plugins") :> {"p1"})

BaseStrs(named, hasNet) ==
    [k \in {KNode(l) : l \in named} |-> "name-of-" \o k]
        @@ (IF hasNet THEN (KDefaultNetwork :> "net") ELSE EmptyMap)

BaseSets(procNodes, raw1) ==
    (KProcNodes :> procNodes) @@ (KDns :> {"[net]a.example"})
        @@ NodeSets("l1", raw1) @@ NodeSets("l2", {"r3"})

BaseHashes ==
    (KRawMeta("r1") :> (("owner" :> "team-b") @@ ("env" :> "prod")))
        @@ (KRawMeta("r2") :> ("region" :> "eu"))
        @@ (KProcMeta("l1") :> ("owner" :> "team-a"))
        @@ (KDnsMeta("[net]a.example") :> ("owner" :> "team-a"))

InitStores ==
    {[strs |-> BaseStrs(named, hasNet), sets |-> BaseSets(procNodes, raw1),
      hashes |-> BaseHashes] :
        named \in {{"l1"}, LinkIds}, hasNet \in BOOLEAN,
        procNodes \in SUBSET LinkIds, raw1 \in {{"r1"}, {"r1", "r2"}}}

ConcStores ==
    {[strs |-> BaseStrs(LinkIds, TRUE), sets |-> BaseSets(procNodes, raw1),
      hashes |-> BaseHashes] :
        procNodes \in {LinkIds}, raw1 \in {{"r1"}, {"r1", "r2"}}}

RawMetaChoices ==
    {EmptyMap, ("owner" :> "team-b"), ("owner" :> "team-c"), ("env" :> "prod"),
     ("owner" :> "team-b") @@ ("env" :> "prod")}
ProcMetaChoices == {EmptyMap, ("owner" :> "team-a"), ("env" :> "dev")}

RawHashes(m) ==
    [k \in {KRawMeta(r) : r \in RawIds} |-> m[CHOOSE r \in RawIds : KRawMeta(r) = k]]

MetaStores ==
    {[strs |-> BaseStrs(LinkIds, TRUE), sets |-> BaseSets(LinkIds, {"r1", "r2"}),
      hashes |-> RawHashes(m) @@ (KProcMeta("l1") :> pm)] :
        m \in [RawIds -> RawMetaChoices], pm \in ProcMetaChoices}

\* The Node values get_node_metadata is called with.
NodeInputs ==
    {[name |-> "node1", link_id |-> l, alt_names |-> {}, dns_names |-> {},
      raw_ids |-> R, plugins |-> {}] : l \in LinkIds, R \in SUBSET RawIds}

ClientIdle ==
    /\ pc = "idle"
    /\ call = [a |-> <<>>, op |-> "none"]
    /\ loc = NoLoc
    /\ sent = <<>>
    /\ applied = <<>>
    /\ ret = NoRet
    /\ failedAt = 0
    /\ dirty = FALSE
    /\ snaps = {}
    /\ writes = 0

EncoderOff ==
    /\ pd = Malformed
    /\ args = <<>>
    /\ decoded = Malformed
    /\ stage = "off"

\* The caller takes the result; the client holds nothing from one call to the next.
Drop ==
    /\ pc = "done"
    /\ pc' = "idle"
    /\ call' = [a |-> <<>>, op |-> "none"]
    /\ loc' = NoLoc
    /\ sent' = <<>>
    /\ applied' = <<>>
    /\ ret' = NoRet
    /\ failedAt' = 0
    /\ dirty' = FALSE
    /\ snaps' = {}
    /\ UNCHANGED <<store, writes, encVars>>

(***************************************************************************)
(* Specifications.                                                         *)
(***************************************************************************)
WriterNext ==
    \E fail \in BOOLEAN, plugin \in Plugins :
        \/ \E name \in DnsNames, rtype \in RTypes \cup {None}, value \in RValues \cup {None} :
                PutDns(plugin, name, rtype, value, fail)
        \/ \E name \in DnsNames, id \in PDataIds, data \in PDataSamples :
                \E order \in ItemOrders(data) :
                    PutDnsPluginData(plugin, name, id, data, order, fail)
        \/ \E name \in DnsNames, m \in Metadatas : \E order \in Orders(DOMAIN m) :
                PutDnsMetadata(plugin, name, m, order, fail)
        \/ \E name \in NodeNames, ns \in DnsNameLists, ex \in BOOLEAN,
              link_id \in LinkIds \cup {None} :
                PutNode(plugin, name, ns, ex, link_id, fail)
        \/ \E ns \in DnsNameLists, id \in PDataIds, data \in PDataSamples :
                \E order \in ItemOrders(data) :
                    PutNodePluginData(plugin, ns, id, data, order, fail)
        \/ \E link_id \in LinkIds, id \in PDataIds, data \in PDataSamples :
                \E order \in ItemOrders(data) :
                    PutProcNodePluginData(plugin, link_id, id, data, order, fail)
        \/ \E ns \in DnsNameLists, m \in Metadatas : \E order \in Orders(DOMAIN m) :
                PutNodeMetadata(plugin, ns, m, order, fail)
        \/ \E link_id \in LinkIds, m \in Metadatas : \E order \in Orders(DOMAIN m) :
                PutProcNodeMetadata(plugin, link_id, m, order, fail)
        \/ \E id \in ReportIds, title \in Titles, length \in 0..MaxItems :
                PutReport(plugin, id, title, length, fail)
        \/ \E id \in ReportIds, index \in 0..MaxItems, data \in PDataSamples :
                \E order \in ItemOrders(data) :
                    PutReportData(plugin, id, index, data, order, fail)

NodeMetadataNext ==
    \/ \E node \in NodeInputs : \E order \in Orders(node.raw_ids) :
            CallGetNodeMetadata(node, order)
    \/ \E fail \in BOOLEAN : GetNodeMetadataRaw(fail)
    \/ \E fail \in BOOLEAN : GetNodeMetadataProc(fail)

ReaderNext ==
    \/ \E fail \in BOOLEAN :
        \/ GetDefaultNetwork(fail)
        \/ \E names \in DnsNameLists, reply \in Replies : QualifyDnsNames(names, reply, fail)
        \/ GetDnsNames(fail)
        \/ \E order \in Orders(Smembers(store, PROC_NODES_KEY)) : GetNodesSmembers(order, fail)
        \/ GetNodeName(fail)
        \/ GetNodeSet(fail)
        \/ \E reply \in Replies : GetDnsMetadataQualify(reply, fail)
        \/ GetDnsMetadataHgetall(fail)
    \/ CallGetNodes
    \/ \E link_id \in LinkIds : CallGetNode(link_id)
    \/ \E name \in DnsNames : CallGetDnsMetadata(name)
    \/ NodeMetadataNext

\* One client and a store nobody else writes to.
Init ==
    /\ store \in InitStores
    /\ ClientIdle
    /\ EncoderOff

Next == ReaderNext \/ WriterNext \/ Drop

Spec == Init /\ [][Next]_vars

\* The reader beside other clients whose procedures the store executes.
InitConc ==
    /\ store \in ConcStores
    /\ ClientIdle
    /\ EncoderOff

NextConc == ReaderNext \/ Drop \/ \E w \in WriteEffects : StoreWrite(w)

SpecConc == InitConc /\ [][NextConc]_vars

\* get_node_metadata over every combination of metadata hashes.
InitMeta ==
    /\ store \in MetaStores
    /\ ClientIdle
    /\ EncoderOff

NextMeta == NodeMetadataNext \/ Drop

SpecMeta == InitMeta /\ [][NextMeta]_vars

\* The encoder on every plugin data value.
InitEncode ==
    /\ store \in {CHOOSE st \in ConcStores : TRUE}
    /\ ClientIdle
    /\ pd \in PluginDatas
    /\ args = <<>>
    /\ decoded = Malformed
    /\ stage = "new"

NextEncode == EncodeStep \/ DecodeStep

SpecEncode == InitEncode /\ [][NextEncode]_vars

(***************************************************************************)
(* Properties.                                                             *)
(***************************************************************************)
Done(op) == pc = "done" /\ call.op = op

\* C1: put_dns sends its one request when rtype and value are both given or
\* both absent; when exactly one is given it returns WrongArgs naming
\* netdox_create_dns, sends nothing, and the store is as it was.
C1_PutDnsPairing ==
    Done("put_dns") =>
        LET a == call.a
        IN IF (a.rtype = None) = (a.value = None)
           THEN /\ ret.kind \in {"Ok", "Redis"}
                /\ sent = << <<"FCALL", "netdox_create_dns", "1", a.name, a.plugin>>
                             \o (IF a.rtype = None THEN <<>> ELSE <<a.rtype, a.value>>) >>
                /\ ret.kind = "Ok" => applied = sent
           ELSE /\ ret.kind = "WrongArgs"
                /\ ret.function = "netdox_create_dns"
                /\ sent = <<>>
                /\ applied = <<>>
                /\ snaps = {store}

C1_Witness ==
    /\ Done("put_dns")
    /\ call.a.rtype = "A"
    /\ call.a.value = None
    /\ ret.kind = "WrongArgs"

WriteOps ==
    {"put_dns", "put_dns_plugin_data", "put_dns_metadata", "put_node",
     "put_node_plugin_data", "put_proc_node_plugin_data", "put_node_metadata",
     "put_proc_node_metadata", "put_report", "put_report_data"}

ProcedureOf(op) ==
    CASE op = "put_dns" -> "netdox_create_dns"
      [] op = "put_dns_plugin_data" -> "netdox_create_dns_plugin_data"
      [] op = "put_dns_metadata" -> "netdox_create_dns_metadata"
      [] op = "put_node" -> "netdox_create_node"
      [] op = "put_node_plugin_data" -> "netdox_create_node_plugin_data"
      [] op = "put_proc_node_plugin_data" -> "netdox_create_proc_node_plugin_data"
      [] op = "put_node_metadata" -> "netdox_create_node_metadata"
      [] op = "put_proc_node_metadata" -> "netdox_create_proc_node_metadata"
      [] op = "put_report" -> "netdox_create_report"
      [] op = "put_report_data" -> "netdox_create_report_data"

\* The keys an operation addresses, from its arguments.
KeysOf(c) ==
    CASE c.op \in {"put_dns", "put_dns_plugin_data", "put_dns_metadata"} -> <<c.a.name>>
      [] c.op \in {"put_node", "put_node_plugin_data", "put_node_metadata"} -> c.a.dns_names
      [] c.op \in {"put_proc_node_plugin_data", "put_proc_node_metadata"} -> <<c.a.link_id>>
      [] c.op \in {"put_report", "put_report_data"} -> <<c.a.report_id>>

\* C2: a write operation that passes validation sends exactly one request:
\* FCALL, the procedure name, the key count, that many keys (the caller's
\* dns_names in order for the node operations, else the one name or id),
\* then the plugin name.
C2_OneFcallKeysThenPlugin ==
    (pc = "done" /\ call.op \in WriteOps /\ ret.kind # "WrongArgs") =>
        LET keys == KeysOf(call)
            n == Len(keys)
        IN /\ Len(sent) = 1
           /\ Len(sent[1]) >= 4 + n
           /\ sent[1][1] = "FCALL"
           /\ sent[1][2] = ProcedureOf(call.op)
           /\ sent[1][3] = ToString(n)
           /\ SubSeq(sent[1], 4, 3 + n) = keys
           /\ sent[1][4 + n] = call.a.plugin

C2_Witness ==
    /\ Done("put_node")
    /\ ret.kind = "Ok"
    /\ Len(call.a.dns_names) = 2
    /\ call.a.dns_names[1] # call.a.dns_names[2]
    /\ sent[1][3] = "2"

\* C3 as stated: every plugin data value, encoded and read back by the
\* reference decoder, is reproduced (a Hash as a set of pairs).
C3_RoundTripAll == stage = "decoded" => Reproduces(decoded, pd)

\* C3 amended: the round trip holds for every Hash, List and String, and for
\* every Table whose rows all have exactly num_columns >= 1 cells (or that
\* has no rows).
C3_RoundTripWellFormed == (stage = "decoded" /\ WellFormed(pd)) => Reproduces(decoded, pd)

C3_Witness ==
    /\ stage = "decoded"
    /\ pd.variant = "Table"
    /\ pd.num_columns = 2
    /\ Len(pd.rows) = 2
    /\ WellFormed(pd)
    /\ pd.rows[1] # pd.rows[2]
    /\ decoded = pd

\* The metadata hashes as the store holds them.
RawMetaOf(st, r) == Hgetall(st, KRawMeta(r))
ProcMetaOf(st, l) == Hgetall(st, KProcMeta(l))
RawKeys(st, node) == UNION {DOMAIN RawMetaOf(st, r) : r \in node.raw_ids}

\* C4: get_node_metadata returns a map over exactly the keys of the raw
\* nodes' hashes and of the processed node's hash; a key of the processed
\* node's hash has the processed node's value, any other key a value that
\* some raw node holds for it.
C4_MetadataUnionProcWins ==
    (Done("get_node_metadata") /\ failedAt = 0) =>
        LET node == call.a.node
            proc == ProcMetaOf(store, node.link_id)
        IN /\ ret.kind = "Ok"
           /\ DOMAIN ret.val = RawKeys(store, node) \cup DOMAIN proc
           /\ \A k \in DOMAIN ret.val :
                IF k \in DOMAIN proc THEN ret.val[k] = proc[k]
                ELSE \E r \in node.raw_ids :
                        /\ k \in DOMAIN RawMetaOf(store, r)
                        /\ ret.val[k] = RawMetaOf(store, r)[k]

C4_Witness ==
    /\ Done("get_node_metadata")
    /\ ret.kind = "Ok"
    /\ call.a.node.raw_ids = {"r1", "r2"}
    /\ "owner" \in DOMAIN ProcMetaOf(store, call.a.node.link_id)
    /\ "owner" \in DOMAIN RawMetaOf(store, "r1")
    /\ "env" \in DOMAIN RawMetaOf(store, "r2")
    /\ RawMetaOf(store, "r1")["owner"] # ProcMetaOf(store, call.a.node.link_id)["owner"]
    /\ ret.val["owner"] = ProcMetaOf(store, call.a.node.link_id)["owner"]
    /\ ret.val["env"] = RawMetaOf(store, "r2")["env"]

\* C5 as stated: in get_dns_metadata, a qualification answer whose length is
\* not exactly 1 gives the Logic error, and no metadata hash is read.
C5_UnexpectedLengthIsLogic ==
    (Done("get_dns_metadata") /\ failedAt # 1 /\ Len(loc.reply) # 1) =>
        /\ ret.kind = "Logic"
        /\ Len(sent) = 1

\* A processed node as the store holds it.
StoredNode(st, l) ==
    [name |-> StrGet(st, KNode(l)), link_id |-> l,
     alt_names |-> Smembers(st, KField(l, "alt_names")),
     dns_names |-> Smembers(st, KField(l, "dns_names")),
     raw_ids |-> Smembers(st, KField(l, "raw_ids")),
     plugins |-> Smembers(st, KField(l, "plugins"))]

\* A list of nodes that holds the processed nodes of st, each once.
NodesMatch(nodes, st) ==
    /\ Len(nodes) = Cardinality(Smembers(st, KProcNodes))
    /\ {nodes[i].link_id : i \in DOMAIN nodes} = Smembers(st, KProcNodes)
    /\ \A i \in DOMAIN nodes : nodes[i] = StoredNode(st, nodes[i].link_id)

\* C6: when no read fails (and the store does not change), get_nodes returns
\* exactly one Node per link id of the processed-nodes set, with the name at
\* the node's key and the four sets stored for that id.
C6_GetNodesOnePerLinkId ==
    (Done("get_nodes") /\ failedAt = 0) =>
        /\ ret.kind = "Ok"
        /\ NodesMatch(ret.val, store)

C6_Witness ==
    /\ Done("get_nodes")
    /\ ret.kind = "Ok"
    /\ Len(ret.val) = 2
    /\ ret.val[1].raw_ids # ret.val[2].raw_ids

\* C7 as stated: qualify_dns_names sends FCALL, then the procedure name
\* netdox_qualify_dns_names, the key count and the names in order.
C7_QualifyIsFcall ==
    Done("qualify_dns_names") =>
        sent = << <<"FCALL", "netdox_qualify_dns_names", ToString(Len(call.a.names))>>
                  \o call.a.names >>

\* C8: a failed request ends the operation with that store error: nothing is
\* sent after it, it is not sent again, and no operation returns a value
\* (a partial list, a partly merged map) once a request of its has failed.
C8_FirstFailureReturned ==
    /\ failedAt # 0 =>
        /\ pc = "done"
        /\ ret.kind = "Redis"
        /\ Len(sent) = failedAt
    /\ (pc = "done" /\ ret.kind # "Redis") => failedAt = 0
    /\ pc # "done" => ret = NoRet

C8_Witness ==
    /\ Done("get_nodes")
    /\ ret.kind = "Redis"
    /\ Len(loc.nodes) = 1
    /\ failedAt = Len(sent)
    /\ failedAt > 6

\* The raw nodes of `node` that hold metadata key k, and whether they agree on it.
Holders(st, node, k) == {r \in node.raw_ids : k \in DOMAIN RawMetaOf(st, r)}
Agree(st, node, k) ==
    \A r1, r2 \in Holders(st, node, k) : RawMetaOf(st, r1)[k] = RawMetaOf(st, r2)[k]
Conflict(st, node, k) == ~Agree(st, node, k) /\ k \notin DOMAIN ProcMetaOf(st, node.link_id)

\* The value of k in the hash of the last raw id of `order` that holds k.
LastValue(st, order, k) ==
    LET holds(i) == k \in DOMAIN RawMetaOf(st, order[i])
        last == CHOOSE i \in DOMAIN order : holds(i) /\ \A j \in DOMAIN order : j > i => ~holds(j)
    IN RawMetaOf(st, order[last])[k]

\* The merged map where the order cannot matter: the processed node's value,
\* else the value of any raw node that holds the key.
AnyOrderMeta(st, node) ==
    LET proc == ProcMetaOf(st, node.link_id)
    IN [k \in RawKeys(st, node) \cup DOMAIN proc |->
            IF k \in DOMAIN proc THEN proc[k]
            ELSE RawMetaOf(st, CHOOSE r \in Holders(st, node, k) : TRUE)[k]]

\* The merged map for one iteration order: last raw id wins, processed node over all.
OrderedMeta(st, node, order) ==
    LET proc == ProcMetaOf(st, node.link_id)
    IN [k \in RawKeys(st, node) \cup DOMAIN proc |->
            IF k \in DOMAIN proc THEN proc[k] ELSE LastValue(st, order, k)]

\* The result is that of a store content s.
Matches(s) ==
    CASE call.op = "get_nodes" -> NodesMatch(ret.val, s)
      [] call.op = "get_node" -> ret.val = StoredNode(s, call.a.link_id)
      [] call.op = "get_node_metadata" -> ret.val = OrderedMeta(s, call.a.node, call.a.order)

\* A result that is the content of the store at no instant of the call.
Torn ==
    /\ pc = "done"
    /\ call.op \in {"get_nodes", "get_node", "get_node_metadata"}
    /\ ret.kind = "Ok"
    /\ \A s \in snaps : ~Matches(s)

\* C9: a result of get_nodes, get_node or get_node_metadata that is the
\* content of the store at no single instant of the call arises only when
\* another client's procedure ran between two of the call's reads (and, the
\* witness, it does arise then); with no such step the result is the store's
\* content at one instant.
C9_TornOnlyByInterleavedWrite == Torn => dirty

C9_Witness ==
    /\ Torn
    /\ call.op = "get_nodes"
    /\ dirty
    /\ writes = 1

\* C10: where every key that two raw nodes share has one value in all of
\* them or is in the processed node's hash, get_node_metadata returns the
\* same map whatever the iteration order of raw_ids; a key that two raw
\* nodes hold with different values and the processed node does not hold
\* gets the value of the last raw id iterated, and two orders give it
\* different values.
C10_OrderMattersOnlyOnConflict ==
    (Done("get_node_metadata") /\ ret.kind = "Ok") =>
        LET node == call.a.node
        IN /\ (\A k \in RawKeys(store, node) :
                    Agree(store, node, k) \/ k \in DOMAIN ProcMetaOf(store, node.link_id))
                => ret.val = AnyOrderMeta(store, node)
           /\ \A k \in RawKeys(store, node) :
                Conflict(store, node, k) =>
                    /\ ret.val[k] = LastValue(store, call.a.order, k)
                    /\ \E o1, o2 \in Orders(node.raw_ids) :
                            LastValue(store, o1, k) # LastValue(store, o2, k)

C10_Witness ==
    /\ Done("get_node_metadata")
    /\ ret.kind = "Ok"
    /\ call.a.order = <<"r1", "r2">>
    /\ Conflict(store, call.a.node, "owner")
    /\ "owner" \in DOMAIN RawMetaOf(store, "r1")
    /\ ret.val["owner"] # RawMetaOf(store, "r1")["owner"]

====
